---- MODULE Spec2Model ----
(***************************************************************************)
(* A model of the DBGP client of vdebug: the Connection (framed reads and  *)
(* writes on one stream socket, src/plugin/dbgp.py) and the two protocol   *)
(* clients built on it, Api (src/python3/vdebug/dbgp.py) and Protocol      *)
(* (src/plugin/dbgp.py).                                                   *)
(*                                                                         *)
(* The program is single threaded: one call is in progress at a time (pc,  *)
(* op) and a blocking socket call is one step.  The debugger engine at the *)
(* other end of the stream is the environment (the Peer actions).          *)
(*                                                                         *)
(* A byte is a one-character string, NUL is the string "NUL".  An XML      *)
(* document is abbreviated byte by byte: "<" opens the root element (in    *)
(* the protocol's namespace), ">" ends it, a letter between the two is one *)
(* character of the root's language attribute and "e" is an <error> child  *)
(* element.  Everything else is not well-formed XML.                       *)
(***************************************************************************)
EXTENDS Integers, Sequences, FiniteSets, TLC

\* ---- bounds of the model ----
MaxCmds == 2          \* commands issued by one client
MaxPeerFrames == 2    \* well-formed frames the engine writes
MaxPeerRaw == 1       \* single raw bytes the engine writes
MaxRx == 6            \* bytes waiting in the socket's receive buffer
MaxCloses == 2        \* close() calls in a row
MaxPayload == 3       \* bytes of a payload in the framing runs

NUL == "NUL"
Digit == {"0", "1", "2", "3", "4", "5", "6", "7", "8", "9"}
Letter == {"P", "p"}
None == <<"None">>

\* the bytes the engine may write one at a time: a digit, the NUL, a byte
\* that is neither
RawBytes == {"1", NUL, "x"}

\* the payloads the engine frames: init messages with and without a
\* language attribute, an error response, and the empty payload, which is
\* not XML
Payloads ==
  { <<"<", "P", ">">>, <<"<", "p", ">">>, <<"<", ">">>, <<"<", "e", ">">>,
    <<>> }

\* ---- helpers ----
Min(a, b) == IF a < b THEN a ELSE b

Take(s, k) == SubSeq(s, 1, k)

Drop(s, k) == SubSeq(s, k + 1, Len(s))

DigitVal(c) ==
  CASE c = "0" -> 0 [] c = "1" -> 1 [] c = "2" -> 2 [] c = "3" -> 3
    [] c = "4" -> 4 [] c = "5" -> 5 [] c = "6" -> 6 [] c = "7" -> 7
    [] c = "8" -> 8 [] c = "9" -> 9

DigitOf(n) ==
  CASE n = 0 -> "0" [] n = 1 -> "1" [] n = 2 -> "2" [] n = 3 -> "3"
    [] n = 4 -> "4" [] n = 5 -> "5" [] n = 6 -> "6" [] n = 7 -> "7"
    [] n = 8 -> "8" [] n = 9 -> "9"

\* str.isdigit() of a one-byte string
isdigit(c) == c \in Digit

\* int(length) of a non-empty string of decimal digits
RECURSIVE int(_)
int(s) ==
  IF Len(s) = 0 THEN 0
  ELSE 10 * int(Take(s, Len(s) - 1)) + DigitVal(s[Len(s)])

\* the decimal digits of n, as the engine writes a length
RECURSIVE str(_)
str(n) ==
  IF n < 10 THEN <<DigitOf(n)>>
  ELSE str(n \div 10) \o <<DigitOf(n % 10)>>

\* a message as the engine frames it: length, NUL, payload, NUL
Frame(p) == str(Len(p)) \o <<NUL>> \o p \o <<NUL>>

\* str.lower() of one character
LowerChar(c) == IF c = "P" THEN "p" ELSE c

lower(s) == [i \in 1..Len(s) |-> LowerChar(s[i])]

\* xml.etree.ElementTree.fromstring: the parsed root, or a ParseError
ET_fromstring(m) ==
  IF /\ Len(m) >= 2
     /\ m[1] = "<"
     /\ m[Len(m)] = ">"
     /\ \A i \in 2..(Len(m) - 1) : m[i] \in Letter \cup {"e"}
  THEN LET attr == SelectSeq(SubSeq(m, 2, Len(m) - 1),
                             LAMBDA c : c \in Letter)
       IN [ok |-> TRUE,
           language |-> IF attr = <<>> THEN None ELSE attr,
           error |-> \E i \in 2..(Len(m) - 1) : m[i] = "e"]
  ELSE [ok |-> FALSE, language |-> None, error |-> FALSE]

VARIABLES
  sock,        \* Connection.sock: "None" or the accepted stream "sock"
  isconned,    \* Connection.isconned
  serv,        \* the listening socket of open(): "none", "listening", "closed"
  rx,          \* bytes the engine has written and the client has not read
  peerClosed,  \* the engine has closed its end of the stream
  tx,          \* the buffers handed to sock.send, in order
  client,      \* the constructed client: "none", "Api" or "Protocol"
  cls,         \* the class whose constructor is running or ran last
  transID,     \* the client's transID
  language,    \* the client's language
  zombie,      \* an Api whose constructor raised awaits its __del__
  pc,          \* where the running call stands: "idle", "accept",
               \* "recv_length", "recv_body", "recv_null"
  op,          \* the running call: "none", "init", "cmd", "detach", "recv"
  length,      \* __recv_length: the digits read so far
  to_recv,     \* __recv_body: bytes still to read
  body,        \* __recv_body: bytes read so far
  err,         \* the exception the last call raised, "none" if it returned
  returned,    \* the last recv_msg returned a message
  result,      \* the message the last recv_msg returned
  lastOp,      \* the call that completed last
  ids,         \* history: the transaction ids of the commands of this client
  trace,       \* history: the send_msg and recv_msg calls of this client
  lastIO,      \* history: Connection state at the last read or write attempt
  eofAt,       \* history: the step of recv_msg that read zero bytes
  badLenByte,  \* history: __recv_length read a byte that is no digit, no NUL
  timedOut,    \* history: the last open() ran into its timeout
  prev,        \* history: sock and isconned before the last close()
  closes,      \* history: close() calls in a row
  nFrames,     \* frames the engine has written
  nRaw,        \* raw bytes the engine has written
  payload,     \* framing runs: the payload under test
  fed,         \* framing runs: how the payload reached the stream
  pending,     \* stream runs: the payloads still framed on the stream
  response,    \* Response.response: the payload the response was built on
  res_cls,     \* the class of the response
  resp_xml,    \* Response.xml: "None" or the parsed "tree"
  resp_ns,     \* Response.ns
  raised,      \* the exception the last call on the response raised
  accesses,    \* history: the outcomes of the as_xml() calls of the user
  made,        \* "none", "input", "live" (constructed) or "failed"
  node,        \* the element a property tree is built from
  uri,         \* the namespace URI of the elements of that response
  properties,  \* ContextGetResponse.properties
  calls,       \* get_context() calls made on that response
  code,        \* the expression text handed to eval()
  cmd_args,    \* Response.cmd_args of the EvalResponse
  decoded,     \* what get_code() returned or raised
  evalpc,      \* "none", "text", "sent" or "decoded"
  klass,       \* the class attributes of Connection and of the clients
  inst,        \* the instance attributes of the objects of each session
  acted,       \* the session the last operation was called on, and the call
  created      \* objects constructed so far

connVars == <<sock, isconned, serv>>
wireVars == <<rx, peerClosed, tx>>
clientVars == <<client, cls, transID, language, zombie>>
recvVars == <<length, to_recv, body>>
histVars == <<ids, trace, lastIO, eofAt, badLenByte, timedOut, prev, closes>>
peerVars == <<nFrames, nRaw>>
frameVars == <<payload, fed>>
respVars == <<response, res_cls, resp_xml, resp_ns, raised, accesses, made>>
propVars == <<node, uri, properties, calls>>
evalVars == <<code, cmd_args, decoded, evalpc>>
pairVars == <<klass, inst, acted, created>>
\* what the Connection and the clients built on it hold
sessionVars == <<connVars, wireVars, clientVars, pc, op, recvVars, err,
                 returned, result, lastOp, histVars, peerVars, frameVars>>
\* what the responses, the property trees and eval hold
objectVars == <<pending, respVars, propVars, evalVars, pairVars>>
vars == <<sock, isconned, serv, rx, peerClosed, tx, client, cls, transID,
          language, zombie, pc, op, length, to_recv, body, err, returned,
          result, lastOp, ids, trace, lastIO, eofAt, badLenByte, timedOut,
          prev, closes, nFrames, nRaw, payload, fed, pending, response,
          res_cls, resp_xml, resp_ns, raised, accesses, made, node, uri,
          properties, calls, code, cmd_args, decoded, evalpc, klass, inst,
          acted, created>>

\* ---- the Connection ----

\* close() that closes the socket and keeps the reference to it
Connection_close_keeps(s, c) == [sock |-> s, isconned |-> 0]

\* Connection.close: the socket, if any, is closed and forgotten and the
\* flag is reset
Connection_close(s, c) ==
  [sock |-> IF s # "None" THEN "None" ELSE s, isconned |-> 0]

\* Connection.isconnected
isconnected == isconned

\* the except clause of Connection.open: the listener is closed, then
\* self.stop() is called; Connection defines no stop, so the call raises
\* AttributeError and `raise e` is never reached
open_except == [serv |-> "closed", err |-> "AttributeError"]

\* send_msg that writes the command and no terminating NUL
send_msg_nonul(cmd) == cmd

\* Connection.send_msg: the buffer handed to sock.send
send_msg(cmd) == cmd \o <<NUL>>

\* the Connection state as a read or write finds it
IOState == IF isconned = 1 THEN "Connected" ELSE "NotConnected"

\* ---- the clients ----

\* Api.__parse_init_msg: the exception raised and the language recorded
Api_parse_init_msg(m) ==
  LET xml == ET_fromstring(m)
  IN IF ~xml.ok THEN [err |-> "ParseError", language |-> None]
     ELSE IF xml.language = None
          THEN [err |-> "ResponseError", language |-> None]
          ELSE [err |-> "none", language |-> lower(xml.language)]

\* Protocol.__parse_init_msg
Protocol_parse_init_msg(m) ==
  LET xml == ET_fromstring(m)
  IN IF ~xml.ok THEN [err |-> "ParseError", language |-> None]
     ELSE IF xml.language = None
          THEN [err |-> "ResponseError", language |-> None]
          ELSE [err |-> "none", language |-> xml.language]

parse_init_msg(c, m) ==
  IF c = "Api" THEN Api_parse_init_msg(m) ELSE Protocol_parse_init_msg(m)

\* the constructor of the response: Api's Response parses the payload when
\* it contains "<error" and raises what it finds, Protocol's Response only
\* stores it
Response_init(c, m) ==
  IF c = "Api" /\ \E i \in 1..Len(m) : m[i] = "e"
  THEN IF ET_fromstring(m).ok THEN "DBGPError" ELSE "ParseError"
  ELSE "none"

\* a counter that is set, not incremented
NextTransID_set(t) == 1

\* send_cmd: the transaction id of the next command
NextTransID(t) == t + 1

\* send_cmd: the command line
CommandLine(c, t) == <<c, "-i">> \o str(t)

\* ---- responses, property nodes and eval before anything is built ----

\* the namespace the classes hard-code: Response.ns, ContextProperty.ns
ProtocolNs == "urn:debugger_protocol_v1"

\* no exception: the call returned
NoExc == [type |-> "none", code |-> None]

\* A response payload, abbreviated to what the Response classes look at:
\* whether it is well-formed XML, the namespace URI of its elements ("" when
\* the root tag has none), where its <error element is ("child" of the
\* root, "nested" deeper, "none"), the code attribute of that element (None
\* when absent) and whether it has a nested message element.
NoDoc ==
  [wellformed |-> FALSE, ns |-> "", error |-> "none", code |-> None,
   message |-> FALSE]

\* An element of a property tree: its local name, its numchildren,
\* children and fullname attributes and its text ("None" when absent) and
\* its child elements.  Every element of a response is in the namespace uri.
NoNode ==
  [name |-> "none", numchildren |-> "None", children |-> "None",
   fullname |-> "None", text |-> "None", kids |-> <<>>]

NoStream == pending = <<>>

NoResponse ==
  /\ response = NoDoc
  /\ res_cls = "none"
  /\ resp_xml = "None"
  /\ resp_ns = ProtocolNs
  /\ raised = NoExc
  /\ accesses = <<>>
  /\ made = "none"

NoProperty ==
  /\ node = NoNode
  /\ uri = ProtocolNs
  /\ properties = <<>>
  /\ calls = 0

NoEval ==
  /\ code = <<>>
  /\ cmd_args = <<>>
  /\ decoded = [raised |-> "none", text |-> <<>>]
  /\ evalpc = "none"

\* the class attributes as the class statements leave them: Connection.sock
\* and Connection.isconned, and transID of Api and of Protocol
ClassAttrs == [sock |-> "None", isconned |-> 0, transID |-> 0]

\* no object of any session exists
NoPairs ==
  /\ klass = ClassAttrs
  /\ inst = <<>>
  /\ acted = [on |-> 0, call |-> "none"]
  /\ created = 0

NoObjects == NoStream /\ NoResponse /\ NoProperty /\ NoEval /\ NoPairs

\* a Connection as its constructor leaves it, and no client
Unconnected ==
  /\ sock = "None"
  /\ isconned = 0
  /\ serv = "none"
  /\ rx = <<>>
  /\ peerClosed = FALSE
  /\ tx = <<>>
  /\ client = "none"
  /\ cls = "none"
  /\ transID = 0
  /\ language = None
  /\ zombie = FALSE
  /\ pc = "idle"
  /\ op = "none"
  /\ length = <<>>
  /\ to_recv = 0
  /\ body = <<>>
  /\ err = "none"
  /\ returned = FALSE
  /\ result = <<>>
  /\ lastOp = "none"
  /\ ids = <<>>
  /\ trace = <<>>
  /\ lastIO = "none"
  /\ eofAt = "none"
  /\ badLenByte = FALSE
  /\ timedOut = FALSE
  /\ prev = [sock |-> "None", isconned |-> 0]
  /\ closes = 0
  /\ nFrames = 0
  /\ nRaw = 0
  /\ payload = <<>>
  /\ fed = "none"

Init == Unconnected /\ NoObjects

\* a call begins: what the previous call left behind is forgotten
Begin ==
  /\ returned' = FALSE
  /\ result' = <<>>
  /\ eofAt' = "none"
  /\ badLenByte' = FALSE
  /\ timedOut' = FALSE

NoPrev == [sock |-> "None", isconned |-> 0]

\* recv_msg is entered
EnterRecv ==
  /\ pc' = "recv_length"
  /\ length' = <<>>
  /\ to_recv' = 0
  /\ body' = <<>>

\* recv_msg is left with exception e ("none": it returned m) and the
\* Connection in state (s, c); the caller carries on to its end:
\* __init__ parses the init message, send_cmd builds the response, detach
\* closes the connection once send_cmd has returned
Return(e, m, s, c) ==
  /\ pc' = "idle"
  /\ op' = "none"
  /\ lastOp' = op
  /\ returned' = (e = "none")
  /\ result' = IF e = "none" THEN m ELSE <<>>
  /\ length' = <<>>
  /\ to_recv' = 0
  /\ body' = <<>>
  /\ UNCHANGED <<cls, transID>>
  /\ CASE op = "init" ->
            LET r == IF e # "none" THEN [err |-> e, language |-> None]
                     ELSE parse_init_msg(cls, m)
            IN /\ err' = r.err
               /\ language' = r.language
               /\ client' = IF r.err = "none" THEN cls ELSE "none"
               /\ zombie' = (zombie \/ (r.err # "none" /\ cls = "Api"))
               /\ sock' = s
               /\ isconned' = c
       [] op = "cmd" ->
            /\ err' = IF e # "none" THEN e ELSE Response_init(client, m)
            /\ sock' = s
            /\ isconned' = c
            /\ UNCHANGED <<client, language, zombie>>
       [] op = "detach" ->
            LET r == IF e # "none" THEN e ELSE Response_init(client, m)
                cl == Connection_close(s, c)
            IN /\ err' = r
               /\ sock' = IF r = "none" THEN cl.sock ELSE s
               /\ isconned' = IF r = "none" THEN cl.isconned ELSE c
               /\ UNCHANGED <<client, language, zombie>>
       [] OTHER ->
            /\ err' = e
            /\ sock' = s
            /\ isconned' = c
            /\ UNCHANGED <<client, language, zombie>>

\* the socket is closed: the stream and what waited on it are gone
Released ==
  /\ rx' = <<>>
  /\ peerClosed' = FALSE
  /\ UNCHANGED tx

\* Api.__init__ and Protocol.__init__ up to the first blocking call:
\* when the connection is not open, open(), which creates the listener and
\* blocks in accept(); else recv_msg()
Client_init(c) ==
  /\ pc = "idle"
  /\ client = "none"
  /\ fed = "none"
  /\ Begin
  /\ err' = "none"
  /\ op' = "init"
  /\ cls' = c
  /\ language' = None
  /\ transID' = 0
  /\ ids' = <<>>
  /\ closes' = 0
  /\ prev' = NoPrev
  /\ lastIO' = "none"
  /\ IF isconnected = 0
     THEN /\ pc' = "accept"
          /\ serv' = "listening"
          /\ trace' = <<>>
          /\ UNCHANGED recvVars
     ELSE /\ EnterRecv
          /\ trace' = <<"recv">>
          /\ UNCHANGED serv
  /\ UNCHANGED <<sock, isconned, wireVars, client, zombie, lastOp,
                 peerVars, frameVars, objectVars>>

\* accept() returns the engine's connection: open() closes the listener
\* and returns, and the constructor goes on to recv_msg()
Accept ==
  /\ pc = "accept"
  /\ sock' = "sock"
  /\ isconned' = 1
  /\ serv' = "closed"
  /\ rx' = <<>>
  /\ peerClosed' = FALSE
  /\ tx' = <<>>
  /\ EnterRecv
  /\ trace' = <<"recv">>
  /\ UNCHANGED <<op, lastOp>>
  /\ UNCHANGED <<clientVars, err, returned, result, ids, lastIO, eofAt,
                 badLenByte, timedOut, prev, closes, peerVars,
                 frameVars, objectVars>>

\* accept() runs into the timeout: the except clause of open(), whose
\* exception leaves the constructor
AcceptTimeout ==
  /\ pc = "accept"
  /\ serv' = open_except.serv
  /\ err' = open_except.err
  /\ timedOut' = TRUE
  /\ pc' = "idle"
  /\ op' = "none"
  /\ lastOp' = op
  /\ zombie' = (zombie \/ cls = "Api")
  /\ UNCHANGED <<sock, isconned, wireVars, client, cls, transID, language,
                 recvVars, returned, result, ids, trace, lastIO, eofAt,
                 badLenByte, prev, closes, peerVars, frameVars, objectVars>>

\* Connection.close, called by the user
Close ==
  /\ pc = "idle"
  /\ fed = "none"
  /\ closes < MaxCloses
  /\ Begin
  /\ err' = "none"
  /\ LET cl == Connection_close(sock, isconned)
     IN /\ sock' = cl.sock
        /\ isconned' = cl.isconned
  /\ prev' = [sock |-> sock, isconned |-> isconned]
  /\ closes' = closes + 1
  /\ lastOp' = "close"
  /\ lastIO' = "none"
  /\ Released
  /\ UNCHANGED <<serv, clientVars, pc, op, recvVars, ids, trace,
                 peerVars, frameVars, objectVars>>

\* Api.__del__, of an Api whose constructor raised or of the live one
\* when its user drops it: conn.close()
Api_del(live) ==
  /\ pc = "idle"
  /\ closes < MaxCloses
  /\ IF live THEN client = "Api" ELSE zombie
  /\ Begin
  /\ err' = "none"
  /\ LET cl == Connection_close(sock, isconned)
     IN /\ sock' = cl.sock
        /\ isconned' = cl.isconned
  /\ prev' = [sock |-> sock, isconned |-> isconned]
  /\ closes' = closes + 1
  /\ lastOp' = "close"
  /\ lastIO' = "none"
  /\ client' = IF live THEN "none" ELSE client
  /\ zombie' = IF live THEN zombie ELSE FALSE
  /\ Released
  /\ UNCHANGED <<serv, cls, transID, language, pc, op, recvVars,
                 ids, trace, peerVars, frameVars, objectVars>>

\* send_cmd that swallows the exception of send_msg and waits for a
\* response all the same
SendRaises_swallowed(o, e) ==
  /\ err' = "none"
  /\ trace' = trace \o <<"sendfail", "recv">>
  /\ op' = o
  /\ EnterRecv
  /\ UNCHANGED <<tx, lastOp>>

\* send_cmd when send_msg raises e: the exception leaves send_cmd, no
\* recv_msg() follows
SendRaises(o, e) ==
  /\ err' = e
  /\ trace' = Append(trace, "sendfail")
  /\ lastOp' = o
  /\ UNCHANGED <<tx, pc, op, recvVars>>

\* send_cmd up to its blocking recv_msg(): the counter is incremented, the
\* line is built and handed to send_msg, which writes on self.sock without
\* looking at the Connection's state; on None the write raises
\* AttributeError, on a stream the engine has closed it may raise
\* socket.error
Issue(c, o) ==
  /\ pc = "idle"
  /\ client # "none"
  /\ transID < MaxCmds
  /\ Begin
  /\ transID' = NextTransID(transID)
  /\ ids' = Append(ids, transID')
  /\ lastIO' = IOState
  /\ closes' = 0
  /\ prev' = NoPrev
  /\ \/ /\ sock = "None"
        /\ SendRaises(o, "AttributeError")
     \/ /\ sock # "None"
        /\ peerClosed
        /\ SendRaises(o, "socket.error")
     \/ /\ sock # "None"
        /\ tx' = send_msg(CommandLine(c, transID'))
        /\ trace' = trace \o <<"send", "recv">>
        /\ err' = "none"
        /\ op' = o
        /\ EnterRecv
        /\ UNCHANGED lastOp
  /\ UNCHANGED <<connVars, rx, peerClosed, client, cls, language, zombie,
                 peerVars, frameVars, objectVars>>

\* the command methods of both clients that are send_cmd and nothing else
send_cmd(c) == Issue(c, "cmd")

\* Api.detach: send_cmd, then conn.close()
detach ==
  /\ client = "Api"
  /\ Issue("detach", "detach")

\* ---- recv_msg, one sock.recv a step ----

\* a read of zero bytes that raises EOFError and leaves the socket open
RecvEOF_open(step) ==
  /\ Return("EOFError", <<>>, sock, isconned)
  /\ eofAt' = step
  /\ UNCHANGED <<rx, peerClosed, tx, badLenByte>>

\* a read returned zero bytes: close(), then EOFError
RecvEOF(step) ==
  LET cl == Connection_close(sock, isconned)
  IN /\ Return("EOFError", <<>>, cl.sock, cl.isconned)
     /\ eofAt' = step
     /\ Released
     /\ UNCHANGED badLenByte

\* __recv_length: c = self.sock.recv(1)
recv_length ==
  /\ pc = "recv_length"
  /\ lastIO' = IOState
  /\ IF rx = <<>>
     THEN /\ peerClosed
          /\ RecvEOF("length")
     ELSE LET c == Head(rx)
          IN /\ rx' = Tail(rx)
             /\ UNCHANGED <<eofAt, peerClosed, tx>>
             /\ IF c = NUL
                THEN IF length = <<>>
                     THEN \* int('') raises ValueError
                          /\ Return("ValueError", <<>>, sock, isconned)
                          /\ UNCHANGED badLenByte
                     ELSE /\ to_recv' = int(length)
                          /\ pc' = IF int(length) > 0 THEN "recv_body"
                                   ELSE "recv_null"
                          /\ UNCHANGED <<length, body, badLenByte, sock,
                                         isconned, clientVars, op, err,
                                         returned, result, lastOp>>
                ELSE /\ length' = IF isdigit(c) THEN Append(length, c)
                                  ELSE length
                     /\ badLenByte' = (badLenByte \/ ~isdigit(c))
                     /\ UNCHANGED <<to_recv, body, pc, sock, isconned,
                                    clientVars, op, err, returned, result,
                                    lastOp>>
  /\ UNCHANGED <<serv, ids, trace, timedOut, prev, closes, peerVars,
                 frameVars, objectVars>>

\* __recv_body without the loop: the first read is taken for the whole
\* payload
recv_body_whole ==
  /\ pc = "recv_body"
  /\ lastIO' = IOState
  /\ IF rx = <<>>
     THEN /\ peerClosed
          /\ RecvEOF("body")
     ELSE \E k \in 1..Min(to_recv, Len(rx)) :
            /\ rx' = Drop(rx, k)
            /\ body' = body \o Take(rx, k)
            /\ to_recv' = 0
            /\ pc' = "recv_null"
            /\ UNCHANGED <<peerClosed, tx>>
            /\ UNCHANGED <<length, badLenByte, eofAt, sock, isconned,
                           clientVars, op, err, returned, result, lastOp>>
  /\ UNCHANGED <<serv, ids, trace, timedOut, prev, closes, peerVars,
                 frameVars, objectVars>>

\* __recv_body: buf = self.sock.recv(to_recv), which returns between one
\* and to_recv of the bytes that wait
recv_body ==
  /\ pc = "recv_body"
  /\ lastIO' = IOState
  /\ IF rx = <<>>
     THEN /\ peerClosed
          /\ RecvEOF("body")
     ELSE \E k \in 1..Min(to_recv, Len(rx)) :
            /\ rx' = Drop(rx, k)
            /\ body' = body \o Take(rx, k)
            /\ to_recv' = to_recv - k
            /\ pc' = IF to_recv - k > 0 THEN "recv_body" ELSE "recv_null"
            /\ UNCHANGED <<peerClosed, tx>>
            /\ UNCHANGED <<length, badLenByte, eofAt, sock, isconned,
                           clientVars, op, err, returned, result, lastOp>>
  /\ UNCHANGED <<serv, ids, trace, timedOut, prev, closes, peerVars,
                 frameVars, objectVars>>

\* __recv_null that returns at the NUL without taking it off the stream
recv_null_keeps ==
  /\ pc = "recv_null"
  /\ lastIO' = IOState
  /\ IF rx = <<>>
     THEN /\ peerClosed
          /\ RecvEOF("null")
     ELSE /\ UNCHANGED <<eofAt, badLenByte>>
          /\ IF Head(rx) = NUL
             THEN /\ Return("none", body, sock, isconned)
                  /\ UNCHANGED <<rx, peerClosed, tx>>
             ELSE /\ rx' = Tail(rx)
                  /\ UNCHANGED <<pc, sock, isconned, clientVars, op, err,
                                 returned, result, lastOp, recvVars,
                                 peerClosed, tx>>
  /\ UNCHANGED <<serv, ids, trace, timedOut, prev, closes, peerVars,
                 frameVars, objectVars>>

\* __recv_null: c = self.sock.recv(1); recv_msg returns the body when the
\* NUL is read
recv_null ==
  /\ pc = "recv_null"
  /\ lastIO' = IOState
  /\ IF rx = <<>>
     THEN /\ peerClosed
          /\ RecvEOF("null")
     ELSE /\ UNCHANGED <<eofAt, badLenByte>>
          /\ IF Head(rx) = NUL
             THEN /\ Return("none", body, sock, isconned)
                  /\ IF sock' = "None" THEN Released
                     ELSE rx' = Tail(rx) /\ UNCHANGED <<peerClosed, tx>>
             ELSE /\ rx' = Tail(rx)
                  /\ UNCHANGED <<pc, sock, isconned, clientVars, op, err,
                                 returned, result, lastOp, recvVars,
                                 peerClosed, tx>>
  /\ UNCHANGED <<serv, ids, trace, timedOut, prev, closes, peerVars,
                 frameVars, objectVars>>

\* ---- the debugger engine ----

\* the engine writes one framed message
PeerSendFrame(p) ==
  /\ sock # "None"
  /\ ~peerClosed
  /\ fed = "none"
  /\ nFrames < MaxPeerFrames
  /\ Len(rx) + Len(Frame(p)) <= MaxRx
  /\ rx' = rx \o Frame(p)
  /\ nFrames' = nFrames + 1
  /\ UNCHANGED <<connVars, peerClosed, tx, clientVars, pc, op, recvVars,
                 err, returned, result, lastOp, histVars, nRaw,
                 frameVars, objectVars>>

\* the engine writes one byte outside any frame
PeerSendByte(b) ==
  /\ sock # "None"
  /\ ~peerClosed
  /\ fed = "none"
  /\ nRaw < MaxPeerRaw
  /\ Len(rx) < MaxRx
  /\ rx' = Append(rx, b)
  /\ nRaw' = nRaw + 1
  /\ UNCHANGED <<connVars, peerClosed, tx, clientVars, pc, op, recvVars,
                 err, returned, result, lastOp, histVars, nFrames,
                 frameVars, objectVars>>

\* the engine closes its end of the stream
PeerClose ==
  /\ sock # "None"
  /\ ~peerClosed
  /\ fed = "none"
  /\ peerClosed' = TRUE
  /\ UNCHANGED <<connVars, rx, tx, clientVars, pc, op, recvVars, err,
                 returned, result, lastOp, histVars, peerVars,
                 frameVars, objectVars>>

Next ==
  \/ \E c \in {"Api", "Protocol"} : Client_init(c)
  \/ Accept
  \/ AcceptTimeout
  \/ Close
  \/ \E live \in BOOLEAN : Api_del(live)
  \/ \E c \in {"status"} : send_cmd(c)
  \/ detach
  \/ recv_length
  \/ recv_body
  \/ recv_null
  \/ \E p \in Payloads : PeerSendFrame(p)
  \/ \E b \in RawBytes : PeerSendByte(b)
  \/ PeerClose

Spec == Init /\ [][Next]_vars

TypeOK ==
  /\ sock \in {"None", "sock"}
  /\ isconned \in {0, 1}
  /\ (sock = "None") <=> (isconned = 0)
  /\ pc \in {"idle", "accept", "recv_length", "recv_body", "recv_null"}

\* ---- the framing alone: one payload through send_msg and recv_msg ----

FrameBytes == {"0", "1", NUL, "x"}

RECURSIVE SeqsUpTo(_, _)
SeqsUpTo(S, n) ==
  IF n = 0 THEN {<<>>}
  ELSE LET shorter == SeqsUpTo(S, n - 1)
       IN shorter \cup {Append(q, b) : q \in shorter, b \in S}

FramePayloads == SeqsUpTo(FrameBytes, MaxPayload)

\* an open Connection and a payload of up to MaxPayload bytes
FrameInit ==
  /\ sock = "sock"
  /\ isconned = 1
  /\ serv = "closed"
  /\ rx = <<>>
  /\ peerClosed = FALSE
  /\ tx = <<>>
  /\ client = "none"
  /\ cls = "none"
  /\ transID = 0
  /\ language = None
  /\ zombie = FALSE
  /\ pc = "idle"
  /\ op = "none"
  /\ length = <<>>
  /\ to_recv = 0
  /\ body = <<>>
  /\ err = "none"
  /\ returned = FALSE
  /\ result = <<>>
  /\ lastOp = "none"
  /\ ids = <<>>
  /\ trace = <<>>
  /\ lastIO = "none"
  /\ eofAt = "none"
  /\ badLenByte = FALSE
  /\ timedOut = FALSE
  /\ prev = NoPrev
  /\ closes = 0
  /\ nFrames = 0
  /\ nRaw = 0
  /\ payload \in FramePayloads
  /\ fed = "start"
  /\ NoObjects

\* send_msg(payload), the bytes written are what the stream then delivers,
\* and recv_msg() is called on them
RoundTrip ==
  /\ pc = "idle"
  /\ fed = "start"
  /\ tx' = send_msg(payload)
  /\ rx' = tx'
  /\ peerClosed' = TRUE
  /\ fed' = "send_msg"
  /\ op' = "recv"
  /\ EnterRecv
  /\ UNCHANGED <<connVars, clientVars, err, returned, result, lastOp,
                 histVars, peerVars, payload, objectVars>>

\* the stream delivers the payload framed as the engine frames a message,
\* and recv_msg() is called on it
FramedRead ==
  /\ pc = "idle"
  /\ fed = "start"
  /\ rx' = Frame(payload)
  /\ peerClosed' \in BOOLEAN
  /\ fed' = "frame"
  /\ op' = "recv"
  /\ EnterRecv
  /\ UNCHANGED <<connVars, tx, clientVars, err, returned, result, lastOp,
                 histVars, peerVars, payload, objectVars>>

\* the stream delivers the bytes of the payload as they are and ends, and
\* recv_msg() is called on them
RawRead ==
  /\ pc = "idle"
  /\ fed = "start"
  /\ rx' = payload
  /\ peerClosed' = TRUE
  /\ fed' = "raw"
  /\ op' = "recv"
  /\ EnterRecv
  /\ UNCHANGED <<connVars, tx, clientVars, err, returned, result, lastOp,
                 histVars, peerVars, payload, objectVars>>

NextFrame ==
  \/ RoundTrip
  \/ FramedRead
  \/ RawRead
  \/ recv_length
  \/ recv_body
  \/ recv_null

SpecFrame == FrameInit /\ [][NextFrame]_vars

\* ---- the responses: one payload through a Response class ----

MaxAccesses == 3      \* as_xml() calls of the user on one response

\* the code attributes of an error element: absent, 4, 206, another number,
\* not a number
Codes == {None, <<"4">>, <<"2", "0", "6">>, <<"5">>, <<"x">>}

Docs ==
  { d \in [wellformed : BOOLEAN,
           ns : {"", ProtocolNs, "urn:other"},
           error : {"none", "child", "nested"},
           code : Codes,
           message : BOOLEAN] :
      d.error = "none" => (d.code = None /\ ~d.message) }

ResponseClasses ==
  {"Response", "StatusResponse", "ContextGetResponse", "EvalResponse"}

DBGPError(c) == [type |-> "DBGPError", code |-> c]

Raise(t) == [type |-> t, code |-> None]

\* "<error" in self.response
contains_error(doc) == doc.error # "none"

\* int(code) succeeds
numeric(c) == c # None /\ \A i \in 1..Len(c) : isdigit(c[i])

\* Response.__determine_ns on the parsed root: the namespace of its tag,
\* DBGPError when the tag has none
Response_determine_ns(doc, n) ==
  IF doc.ns = ""
  THEN [ns |-> n, raised |-> DBGPError(<<"1">>)]
  ELSE [ns |-> doc.ns, raised |-> NoExc]

\* Response.as_xml with self.xml = x and self.ns = n: the tree is stored
\* before the namespace is determined
Response_as_xml(doc, x, n) ==
  IF x # "None" THEN [xml |-> x, ns |-> n, raised |-> NoExc]
  ELSE IF ~doc.wellformed
       THEN [xml |-> "None", ns |-> n, raised |-> Raise("ParseError")]
       ELSE LET d == Response_determine_ns(doc, n)
            IN [xml |-> "tree", ns |-> d.ns, raised |-> d.raised]

\* xml.find('%serror' % self.ns): a child of the root with that tag
find_error(doc, n) == doc.error = "child" /\ doc.ns = n

\* __parse_error that looks for the message before it looks at the code
parse_err_el_msgfirst(doc, n) ==
  IF ~find_error(doc, n) THEN DBGPError(<<"1">>)
  ELSE IF doc.code = None THEN Raise("ResponseError")
  ELSE IF ~numeric(doc.code) THEN Raise("ValueError")
  ELSE IF ~doc.message THEN Raise("ResponseError")
  ELSE IF int(doc.code) = 4 THEN Raise("CmdNotImplementedError")
  ELSE DBGPError(doc.code)

\* Response.__parse_error once the tree is there: what it raises
parse_err_el(doc, n) ==
  IF ~find_error(doc, n) THEN DBGPError(<<"1">>)
  ELSE IF doc.code = None THEN Raise("ResponseError")
  ELSE IF ~numeric(doc.code) THEN Raise("ValueError")
  ELSE IF int(doc.code) = 4 THEN Raise("CmdNotImplementedError")
  ELSE IF ~doc.message THEN Raise("ResponseError")
  ELSE DBGPError(doc.code)

\* Response.__parse_error
Response_parse_error(doc, x, n) ==
  LET a == Response_as_xml(doc, x, n)
  IN IF a.raised # NoExc THEN a
     ELSE [xml |-> a.xml, ns |-> a.ns, raised |-> parse_err_el(doc, a.ns)]

\* Response.__init__, which ContextGetResponse.__init__ calls and adds an
\* empty property list to
Response_new(doc) ==
  IF contains_error(doc) THEN Response_parse_error(doc, "None", ProtocolNs)
  ELSE [xml |-> "None", ns |-> ProtocolNs, raised |-> NoExc]

\* EvalResponse.__init__: a DBGPError whose code is 206 becomes EvalError
EvalResponse_new(doc) ==
  LET r == Response_new(doc)
  IN IF r.raised.type = "DBGPError" /\ int(r.raised.code) = 206
     THEN [r EXCEPT !.raised = Raise("EvalError")]
     ELSE r

\* res_cls(msg, cmd, args, self), the last line of send_cmd
res_cls_new(c, doc) ==
  IF c = "EvalResponse" THEN EvalResponse_new(doc) ELSE Response_new(doc)

\* a payload and the class send_cmd was given for it
ResponseInit ==
  /\ Unconnected
  /\ NoStream
  /\ NoProperty
  /\ NoEval
  /\ NoPairs
  /\ response \in Docs
  /\ res_cls \in ResponseClasses
  /\ resp_xml = "None"
  /\ resp_ns = ProtocolNs
  /\ raised = NoExc
  /\ accesses = <<>>
  /\ made = "input"

\* the response object is constructed
NewResponse ==
  /\ made = "input"
  /\ LET r == res_cls_new(res_cls, response)
     IN /\ resp_xml' = r.xml
        /\ resp_ns' = r.ns
        /\ raised' = r.raised
        /\ made' = IF r.raised = NoExc THEN "live" ELSE "failed"
  /\ UNCHANGED <<response, res_cls, accesses>>
  /\ UNCHANGED <<sessionVars, pending, propVars, evalVars, pairVars>>

\* the user of a constructed response calls as_xml()
AccessXml ==
  /\ made = "live"
  /\ Len(accesses) < MaxAccesses
  /\ LET r == Response_as_xml(response, resp_xml, resp_ns)
     IN /\ resp_xml' = r.xml
        /\ resp_ns' = r.ns
        /\ raised' = r.raised
        /\ accesses' = Append(accesses,
                              [out |-> IF r.raised = NoExc THEN r.xml
                                       ELSE r.raised.type,
                               ns |-> r.ns])
  /\ UNCHANGED <<response, res_cls, made>>
  /\ UNCHANGED <<sessionVars, pending, propVars, evalVars, pairVars>>

NextResponse ==
  \/ NewResponse
  \/ AccessXml

SpecResponse == ResponseInit /\ [][NextResponse]_vars

\* ---- the property tree: one element through ContextProperty ----

MaxKids == 3          \* child elements of the element a tree is built from
MaxCalls == 2         \* get_context() calls on one response

\* the child elements: property elements without children of their own,
\* with and without a declared child count, and the nested value and
\* fullname elements
PropertyKids ==
  { [name |-> "property", numchildren |-> n, children |-> "None",
     fullname |-> "c", text |-> "1", kids |-> <<>>] : n \in {"None", "1"} }

TextKids ==
  { [name |-> nm, numchildren |-> "None", children |-> "None",
     fullname |-> "None", text |-> "v", kids |-> <<>>] :
      nm \in {"value", "fullname"} }

Kids == PropertyKids \cup TextKids

\* the elements a tree is built from
Nodes ==
  { [name |-> "property", numchildren |-> n, children |-> c,
     fullname |-> f, text |-> t, kids |-> ks] :
      n \in {"None", "0", "1", "2", "3"}, c \in {"None", "2"},
      f \in {"None", "a"}, t \in {"None", "t"},
      ks \in SeqsUpTo(Kids, MaxKids) }

\* the qualified tag of an element: '{namespace}localname'
Tag(u, name) == <<u, name>>

\* ContextProperty.ns, a class attribute that nothing assigns
ContextProperty_ns == ProtocolNs

\* node.find('%s%s' % (self.ns, name)) on an element of namespace u: the
\* first child element with that tag, NoNode when there is none
find(el, u, name) ==
  LET hits == SelectSeq(el.kids,
                        LAMBDA k : Tag(u, k.name)
                                     = Tag(ContextProperty_ns, name))
  IN IF hits = <<>> THEN NoNode ELSE Head(hits)

\* ContextProperty._get_enc_node_text of an element without an encoding
get_enc_node_text(el, u, name, default) ==
  LET n == find(el, u, name)
  IN IF n # NoNode /\ n.text # "None" THEN n.text ELSE default

\* ContextProperty._determine_displayname
determine_displayname(el, u) ==
  IF el.fullname # "None" THEN el.fullname
  ELSE get_enc_node_text(el, u, "fullname", "")

\* has_children that is true of every node
has_children_always(n) == TRUE

\* ContextProperty._determine_children: self.has_children
has_children(n) == n > 0

\* ContextProperty._determine_children: self.num_declared_children
determine_children(el) ==
  LET c == IF el.numchildren # "None" THEN el.numchildren ELSE el.children
  IN IF c = "None" THEN 0 ELSE int(<<c>>)

\* ContextProperty.__determine_value of an element without an encoding and
\* a type
determine_value(el, u) ==
  IF has_children(determine_children(el)) THEN ""
  ELSE LET v == get_enc_node_text(el, u, "value", "None")
       IN IF v # "None" THEN v
          ELSE IF el.text # "None" THEN el.text ELSE ""

\* ContextProperty.mark_as_last_child
mark_as_last_child(p) == [p EXCEPT !.is_last_child = TRUE]

\* ContextProperty.__init__ on an element of namespace u, __init_children
\* included: the child elements with the property tag are built in document
\* order and the one whose index is the declared count is marked
RECURSIVE ContextProperty(_, _)
ContextProperty(el, u) ==
  LET declared == determine_children(el)
      tagname == Tag(ContextProperty_ns, "property")
      matching == SelectSeq(el.kids, LAMBDA c : Tag(u, c.name) = tagname)
  IN [display_name |-> determine_displayname(el, u),
      value |-> determine_value(el, u),
      num_declared_children |-> declared,
      has_children |-> has_children(declared),
      is_last_child |-> FALSE,
      children |->
        IF has_children(declared)
        THEN [idx \in 1..Len(matching) |->
                LET p == ContextProperty(matching[idx], u)
                IN IF idx = declared THEN mark_as_last_child(p) ELSE p]
        ELSE <<>>]

\* ContextGetResponse.create_properties: the property, then its children
RECURSIVE create_properties(_)
create_properties(p) ==
  LET below[i \in 0..Len(p.children)] ==
        IF i = 0 THEN <<>>
        ELSE below[i - 1] \o create_properties(p.children[i])
  IN <<p>> \o below[Len(p.children)]

\* a response whose root has one child element, in namespace uri
PropertyInit ==
  /\ Unconnected
  /\ NoStream
  /\ NoResponse
  /\ NoEval
  /\ NoPairs
  /\ node \in Nodes
  /\ uri \in {ProtocolNs, "urn:other"}
  /\ properties = <<>>
  /\ calls = 0

\* ContextGetResponse.get_context: create_properties appends to
\* self.properties, the list that __init__ made, and that list is returned
get_context ==
  /\ node # NoNode
  /\ calls < MaxCalls
  /\ properties' = properties \o create_properties(ContextProperty(node, uri))
  /\ calls' = calls + 1
  /\ UNCHANGED <<node, uri>>
  /\ UNCHANGED <<sessionVars, pending, respVars, evalVars, pairVars>>

NextProperty == get_context

SpecProperty == PropertyInit /\ [][NextProperty]_vars

\* ---- eval: one expression text through Api.eval and get_code ----

MaxText == 3          \* characters of a short expression text

\* base64.MAXBINSIZE: the bytes encodebytes puts on one line
MAXBINSIZE == 57

\* characters are their code points, bytes their values
PAD == 61
LF == 10
SPACE == 32
DASH == 45

\* the characters of the texts: a letter, a space, a dash and a character
\* that takes two bytes in UTF-8
TextChars == {97, SPACE, DASH, 233}

\* long texts: one full line of base64, one byte more, and more than two
\* lines
LongTexts ==
  { [i \in 1..n |-> 97] :
      n \in {MAXBINSIZE, MAXBINSIZE + 1, 2 * MAXBINSIZE + 1} }

Texts == SeqsUpTo(TextChars, MaxText) \cup LongTexts

\* str.encode('utf-8') of characters below U+0800: one byte below U+0080,
\* else two
RECURSIVE utf8_encode(_)
utf8_encode(t) ==
  IF t = <<>> THEN <<>>
  ELSE IF Len(t) = 1
       THEN IF t[1] < 128 THEN <<t[1]>>
            ELSE <<192 + (t[1] \div 64), 128 + (t[1] % 64)>>
       ELSE LET h == Len(t) \div 2
            IN utf8_encode(Take(t, h)) \o utf8_encode(Drop(t, h))

\* the UTF-8 decoder after one more byte: lead is the first byte of a
\* two-byte sequence that waits for its second
utf8_step(st, b) ==
  IF st.raised # "none" THEN st
  ELSE IF st.lead = 0
       THEN IF b < 128 THEN [st EXCEPT !.text = Append(@, b)]
            ELSE IF b >= 194 /\ b < 224 THEN [st EXCEPT !.lead = b]
            ELSE [st EXCEPT !.raised = "UnicodeDecodeError"]
       ELSE IF b >= 128 /\ b < 192
            THEN [st EXCEPT
                    !.text = Append(@, (st.lead - 192) * 64 + (b - 128)),
                    !.lead = 0]
            ELSE [st EXCEPT !.raised = "UnicodeDecodeError"]

\* the decoder run over the bytes bs from state st
RECURSIVE utf8_run(_, _)
utf8_run(bs, st) ==
  IF st.raised # "none" \/ bs = <<>> THEN st
  ELSE IF Len(bs) = 1 THEN utf8_step(st, bs[1])
  ELSE LET h == Len(bs) \div 2
       IN utf8_run(Drop(bs, h), utf8_run(Take(bs, h), st))

\* bytes.decode('utf-8') of one- and two-byte sequences
utf8_decode(bs) ==
  LET st == utf8_run(bs, [raised |-> "none", text |-> <<>>, lead |-> 0])
  IN IF st.raised # "none" \/ st.lead # 0
     THEN [raised |-> "UnicodeDecodeError", text |-> <<>>]
     ELSE [raised |-> "none", text |-> st.text]

\* the character of the base64 alphabet for six bits
B64Char(v) ==
  IF v < 26 THEN 65 + v
  ELSE IF v < 52 THEN 97 + (v - 26)
  ELSE IF v < 62 THEN 48 + (v - 52)
  ELSE IF v = 62 THEN 43 ELSE 47

\* the six bits of a character of the base64 alphabet, 64 for any other
B64Val(ch) ==
  IF ch >= 65 /\ ch <= 90 THEN ch - 65
  ELSE IF ch >= 97 /\ ch <= 122 THEN ch - 97 + 26
  ELSE IF ch >= 48 /\ ch <= 57 THEN ch - 48 + 52
  ELSE IF ch = 43 THEN 62
  ELSE IF ch = 47 THEN 63 ELSE 64

\* binascii.b2a_base64 without its newline: three bytes make four
\* characters, the last group is padded
RECURSIVE b2a_base64(_)
b2a_base64(bs) ==
  IF bs = <<>> THEN <<>>
  ELSE IF Len(bs) = 1
       THEN <<B64Char(bs[1] \div 4), B64Char((bs[1] % 4) * 16), PAD, PAD>>
  ELSE IF Len(bs) = 2
       THEN <<B64Char(bs[1] \div 4),
              B64Char((bs[1] % 4) * 16 + (bs[2] \div 16)),
              B64Char((bs[2] % 16) * 4), PAD>>
  ELSE <<B64Char(bs[1] \div 4),
         B64Char((bs[1] % 4) * 16 + (bs[2] \div 16)),
         B64Char((bs[2] % 16) * 4 + (bs[3] \div 64)),
         B64Char(bs[3] % 64)>> \o b2a_base64(Drop(bs, 3))

\* base64.encodebytes: a line of base64 and a newline for every MAXBINSIZE
\* bytes
RECURSIVE encodebytes(_)
encodebytes(bs) ==
  IF bs = <<>> THEN <<>>
  ELSE LET k == Min(MAXBINSIZE, Len(bs))
       IN b2a_base64(Take(bs, k)) \o <<LF>> \o encodebytes(Drop(bs, k))

\* binascii.a2b_base64, not strict, after one more character: characters
\* outside the alphabet are skipped, padding that completes a group ends
\* the input (done), any other padding is skipped
a2b_step(st, ch) ==
  LET v == B64Val(ch)
  IN IF st.done THEN st
     ELSE IF ch = PAD
          THEN IF st.quad_pos >= 2
               THEN IF st.quad_pos + st.pads + 1 >= 4
                    THEN [st EXCEPT !.done = TRUE]
                    ELSE [st EXCEPT !.pads = @ + 1]
               ELSE st
     ELSE IF v = 64 THEN st
     ELSE IF st.quad_pos = 0
          THEN [st EXCEPT !.quad_pos = 1, !.leftchar = v, !.pads = 0]
     ELSE IF st.quad_pos = 1
          THEN [st EXCEPT !.quad_pos = 2, !.leftchar = v % 16, !.pads = 0,
                          !.out = Append(@, st.leftchar * 4 + (v \div 16))]
     ELSE IF st.quad_pos = 2
          THEN [st EXCEPT !.quad_pos = 3, !.leftchar = v % 4, !.pads = 0,
                          !.out = Append(@, st.leftchar * 16 + (v \div 4))]
     ELSE [st EXCEPT !.quad_pos = 0, !.leftchar = 0, !.pads = 0,
                     !.out = Append(@, st.leftchar * 64 + v)]

\* the decoder run over the characters s from state st
RECURSIVE a2b_run(_, _)
a2b_run(s, st) ==
  IF st.done \/ s = <<>> THEN st
  ELSE IF Len(s) = 1 THEN a2b_step(st, s[1])
  ELSE LET h == Len(s) \div 2
       IN a2b_run(Drop(s, h), a2b_run(Take(s, h), st))

\* binascii.a2b_base64: an incomplete last group is an error
a2b_base64(s) ==
  LET st == a2b_run(s, [quad_pos |-> 0, leftchar |-> 0, pads |-> 0,
                        out |-> <<>>, done |-> FALSE])
  IN IF ~st.done /\ st.quad_pos # 0
     THEN [raised |-> "binascii.Error", text |-> <<>>]
     ELSE [raised |-> "none", text |-> st.out]

\* base64.b64decode
b64decode(s) == a2b_base64(s)

\* str.isspace of one character
isspace(ch) == ch \in {9, 10, 11, 12, 13, 32}

RECURSIVE lstrip(_)
lstrip(s) == IF s # <<>> /\ isspace(Head(s)) THEN lstrip(Tail(s)) ELSE s

RECURSIVE rstrip(_)
rstrip(s) ==
  IF s # <<>> /\ isspace(s[Len(s)]) THEN rstrip(Take(s, Len(s) - 1))
  ELSE s

\* str.strip
strip(s) == rstrip(lstrip(s))

\* str.split(sep)
RECURSIVE split(_, _)
split(s, sep) ==
  LET starts == {i \in 1..(Len(s) - Len(sep) + 1) :
                   SubSeq(s, i, i + Len(sep) - 1) = sep}
  IN IF starts = {} THEN <<s>>
     ELSE LET i == CHOOSE j \in starts : \A k \in starts : j <= k
          IN <<Take(s, i - 1)>> \o split(Drop(s, i + Len(sep) - 1), sep)

\* Api.eval: the argument string handed to send_cmd
eval_args(text) == <<DASH, DASH, SPACE>> \o encodebytes(utf8_encode(text))

\* send_cmd: the arguments as they are sent and stored in the response
send_cmd_args(args) == strip(args)

\* EvalResponse.get_code
EvalResponse_get_code(cmd) ==
  LET parts == split(cmd, <<DASH, DASH, SPACE>>)
  IN IF Len(parts) < 2 THEN [raised |-> "IndexError", text |-> <<>>]
     ELSE LET missing_padding == Len(parts[2]) % 4
              token == IF missing_padding # 0
                       THEN parts[2]
                              \o [i \in 1..(4 - missing_padding) |-> PAD]
                       ELSE parts[2]
              bin == b64decode(utf8_encode(token))
          IN IF bin.raised # "none" THEN bin ELSE utf8_decode(bin.text)

\* an expression text
EvalInit ==
  /\ Unconnected
  /\ NoStream
  /\ NoResponse
  /\ NoProperty
  /\ NoPairs
  /\ code \in Texts
  /\ cmd_args = <<>>
  /\ decoded = [raised |-> "none", text |-> <<>>]
  /\ evalpc = "text"

\* Api.eval(code), answered without an error: the EvalResponse stores the
\* arguments
Api_eval ==
  /\ evalpc = "text"
  /\ cmd_args' = send_cmd_args(eval_args(code))
  /\ evalpc' = "sent"
  /\ UNCHANGED <<code, decoded>>
  /\ UNCHANGED <<sessionVars, pending, respVars, propVars, pairVars>>

\* get_code() on that response
get_code ==
  /\ evalpc = "sent"
  /\ decoded' = EvalResponse_get_code(cmd_args)
  /\ evalpc' = "decoded"
  /\ UNCHANGED <<code, cmd_args>>
  /\ UNCHANGED <<sessionVars, pending, respVars, propVars, pairVars>>

NextEval ==
  \/ Api_eval
  \/ get_code

SpecEval == EvalInit /\ [][NextEval]_vars

\* ---- the stream: consecutive recv_msg calls on framed messages ----

MaxStreamFrames == 2  \* framed messages the engine has written
MaxStreamPayload == 2 \* bytes of a short payload on the stream

\* the payloads on the stream: short ones made of a digit and the NUL, the
\* bytes the framing itself uses, and one whose length has two digits
StreamPayloads ==
  SeqsUpTo({"1", NUL}, MaxStreamPayload) \cup {[i \in 1..10 |-> "x"]}

\* the messages as the engine frames them, one after the other
RECURSIVE Frames(_)
Frames(ps) ==
  IF ps = <<>> THEN <<>> ELSE Frame(Head(ps)) \o Frames(Tail(ps))

\* an open Connection whose stream holds up to MaxStreamFrames framed
\* messages
StreamInit ==
  /\ sock = "sock"
  /\ isconned = 1
  /\ serv = "closed"
  /\ pending \in SeqsUpTo(StreamPayloads, MaxStreamFrames)
  /\ rx = Frames(pending)
  /\ peerClosed \in BOOLEAN
  /\ tx = <<>>
  /\ client = "none"
  /\ cls = "none"
  /\ transID = 0
  /\ language = None
  /\ zombie = FALSE
  /\ pc = "idle"
  /\ op = "none"
  /\ length = <<>>
  /\ to_recv = 0
  /\ body = <<>>
  /\ err = "none"
  /\ returned = FALSE
  /\ result = <<>>
  /\ lastOp = "none"
  /\ ids = <<>>
  /\ trace = <<>>
  /\ lastIO = "none"
  /\ eofAt = "none"
  /\ badLenByte = FALSE
  /\ timedOut = FALSE
  /\ prev = NoPrev
  /\ closes = 0
  /\ nFrames = 0
  /\ nRaw = 0
  /\ payload = <<>>
  /\ fed = "stream"
  /\ NoResponse
  /\ NoProperty
  /\ NoEval
  /\ NoPairs

\* recv_msg() is called while a framed message is on the stream; payload
\* is the payload of that message
recv_msg ==
  /\ pc = "idle"
  /\ fed = "stream"
  /\ pending # <<>>
  /\ Begin
  /\ err' = "none"
  /\ payload' = Head(pending)
  /\ pending' = Tail(pending)
  /\ op' = "recv"
  /\ trace' = Append(trace, "recv")
  /\ EnterRecv
  /\ UNCHANGED <<connVars, wireVars, clientVars, lastOp, ids, lastIO, prev,
                 closes, peerVars, fed, respVars, propVars, evalVars,
                 pairVars>>

NextStream ==
  \/ recv_msg
  \/ recv_length
  \/ recv_body
  \/ recv_null

SpecStream == StreamInit /\ [][NextStream]_vars

\* ---- the encoded texts: one element with base64 texts through
\* ---- ContextProperty

MaxEncKids == 2       \* child elements of an element with encoded texts

BACKTICK == 96
BACKSLASH == 92

\* an element without text (node.text is None)
NoText == <<-1>>

\* the texts of the elements, as code points: 'YQ==' is base64 of 'a',
\* '/w==' of the byte FF, which is no UTF-8, 'YQ' lacks its padding, and
\* '!!' has no character of the base64 alphabet
B64_a == <<89, 81, 61, 61>>
B64_ff == <<47, 119, 61, 61>>
B64_nopad == <<89, 81>>
B64_junk == <<33, 33>>

EncTexts == {B64_a, B64_ff, B64_nopad, B64_junk}

\* the child elements: nested value and fullname elements and property
\* elements without children, all marked base64
EncKids ==
  { [name |-> nm, encoding |-> "base64", type |-> "int",
     fullname |-> IF nm = "property" THEN <<99>> ELSE NoText,
     numchildren |-> "None", children |-> "None", text |-> t,
     kids |-> <<>>] :
      nm \in {"value", "fullname", "property"},
      t \in {B64_a, B64_ff, B64_nopad} }

\* the elements a property is built from
EncNodes ==
  { [name |-> "property", encoding |-> e, type |-> ty, fullname |-> f,
     numchildren |-> n, children |-> "None", text |-> t, kids |-> ks] :
      e \in {"None", "base64"}, ty \in {"int", "String"},
      f \in {NoText, <<97>>}, n \in {"None", "1"},
      t \in EncTexts \cup {NoText},
      ks \in SeqsUpTo(EncKids, MaxEncKids) }

\* base64.decodebytes
decodebytes(s) == a2b_base64(s)

\* a call that returned the text t
Returned(t) == [raised |-> "none", text |-> t]

\* the except clause of the try statement: on UnicodeDecodeError the text
\* itself
except_UnicodeDecodeError(d, t) ==
  IF d.raised = "UnicodeDecodeError" THEN Returned(t) ELSE d

\* .decode("utf-8") of what base64.decodebytes gave; an exception of
\* decodebytes leaves the try statement, no except clause names it
decode_utf8(bin, t) ==
  IF bin.raised # "none" THEN [raised |-> bin.raised, text |-> <<>>]
  ELSE except_UnicodeDecodeError(utf8_decode(bin.text), t)

\* the try statement of __determine_value and _get_enc_node_text:
\* base64.decodebytes(text.encode("UTF-8")).decode("utf-8"), the text itself
\* on UnicodeDecodeError
decode_or_text(t) == decode_utf8(decodebytes(utf8_encode(t)), t)

\* ContextProperty._get_enc_node_text once n = node.find(...) is known
node_text(n, default) ==
  IF n = NoNode THEN Returned(default)
  ELSE IF n.text = NoText THEN Returned(default)
  ELSE IF n.encoding = "base64" THEN decode_or_text(n.text)
  ELSE Returned(n.text)

\* ContextProperty._get_enc_node_text
enc_node_text(el, name, default) ==
  node_text(find(el, ProtocolNs, name), default)

\* ContextProperty._determine_displayname of an element whose name is not
\* '::'
enc_displayname(el) ==
  IF el.fullname # NoText THEN Returned(el.fullname)
  ELSE enc_node_text(el, "fullname", <<>>)

\* str.replace('`', '\\`')
RECURSIVE escape_backticks(_)
escape_backticks(v) ==
  IF v = <<>> THEN <<>>
  ELSE (IF Head(v) = BACKTICK THEN <<BACKSLASH, BACKTICK>> ELSE <<Head(v)>>)
         \o escape_backticks(Tail(v))

\* self.type.lower() of the types of the elements
type_lower(type) == IF type = "String" THEN "string" ELSE type

\* the end of __determine_value: a string is shown between backticks
shown(type, v) ==
  IF type_lower(type) \in {"string", "str", "scalar"}
  THEN <<BACKTICK>> \o escape_backticks(v) \o <<BACKTICK>>
  ELSE v

\* the end of __determine_value on what the lookups gave: None becomes '';
\* an exception has left the method before
show(type, w) ==
  IF w.raised # "none" THEN w
  ELSE Returned(shown(type, IF w.text = NoText THEN <<>> ELSE w.text))

\* __determine_value when no value element gave a text: the text of the
\* node itself, decoded when the node is marked base64
own_text(el) ==
  IF el.encoding = "base64"
  THEN IF el.text = NoText THEN Returned(<<>>) ELSE decode_or_text(el.text)
  ELSE Returned(el.text)

\* __determine_value of a node without children, v being what
\* _get_enc_node_text(node, 'value') gave and own the text of the node
\* itself, which is looked at when v is None
value_of(el, v, own) ==
  IF v.raised # "none" THEN v
  ELSE IF v.text # NoText THEN show(el.type, v)
  ELSE show(el.type, own)

\* ContextProperty.__determine_value of an element whose type is not
\* 'uninitialized'
enc_value(el) ==
  IF has_children(determine_children(el)) THEN Returned(<<>>)
  ELSE value_of(el, enc_node_text(el, "value", NoText), own_text(el))

\* the end of ContextProperty.__init__: the first exception of the display
\* name, the value and the children in that order, or the property
enc_property(declared, dn, val, built) ==
  LET failed == {idx \in 1..Len(built) : built[idx].raised # "none"}
  IN IF dn.raised # "none" THEN [raised |-> dn.raised, p |-> <<>>]
     ELSE IF val.raised # "none" THEN [raised |-> val.raised, p |-> <<>>]
     ELSE IF failed # {}
          THEN [raised |-> built[CHOOSE i \in failed :
                                   \A j \in failed : i <= j].raised,
                p |-> <<>>]
     ELSE [raised |-> "none",
           p |-> [display_name |-> dn.text,
                  value |-> val.text,
                  num_declared_children |-> declared,
                  has_children |-> has_children(declared),
                  is_last_child |-> FALSE,
                  children |->
                    [idx \in 1..Len(built) |->
                       IF idx = declared
                       THEN mark_as_last_child(built[idx].p)
                       ELSE built[idx].p]]]

\* ContextProperty.__init__ on an element with encoded texts, the children
\* being built from the child elements with the property tag
RECURSIVE EncProperty(_)
EncProperty(el) ==
  enc_property(determine_children(el), enc_displayname(el), enc_value(el),
               IF has_children(determine_children(el))
               THEN LET matching ==
                          SelectSeq(el.kids, LAMBDA c : c.name = "property")
                    IN [idx \in 1..Len(matching) |->
                          EncProperty(matching[idx])]
               ELSE <<>>)

\* a response whose root has one child element with encoded texts
EncInit ==
  /\ Unconnected
  /\ NoStream
  /\ NoEval
  /\ NoPairs
  /\ response = NoDoc
  /\ res_cls = "none"
  /\ resp_xml = "None"
  /\ resp_ns = ProtocolNs
  /\ raised = NoExc
  /\ accesses = <<>>
  /\ made = "input"
  /\ node \in EncNodes
  /\ uri = ProtocolNs
  /\ properties = <<>>
  /\ calls = 0

\* ContextGetResponse.get_context on that response
get_context_enc ==
  /\ made = "input"
  /\ node \in EncNodes
  /\ LET r == EncProperty(node)
     IN /\ raised' = Raise(r.raised)
        /\ properties' = IF r.raised = "none" THEN create_properties(r.p)
                         ELSE <<>>
        /\ made' = IF r.raised = "none" THEN "live" ELSE "failed"
  /\ calls' = calls + 1
  /\ UNCHANGED <<node, uri, response, res_cls, resp_xml, resp_ns, accesses>>
  /\ UNCHANGED <<sessionVars, pending, evalVars, pairVars>>

NextEnc == get_context_enc

SpecEnc == EncInit /\ [][NextEnc]_vars

\* ---- the session: commands of one Api answered by the engine ----

\* the command names
SessionCmds == {"status", "eval"}

\* the responses of the engine: two that carry an error element and one
\* that does not
ErrorAnswers == { <<"<", "e", ">">>, <<"<", "e", "p", ">">> }

SessionAnswers == ErrorAnswers \cup { <<"<", "p", ">">> }

\* an Api on an open Connection, after the handshake
SessionInit ==
  /\ sock = "sock"
  /\ isconned = 1
  /\ serv = "closed"
  /\ rx = <<>>
  /\ peerClosed = FALSE
  /\ tx = <<>>
  /\ client = "Api"
  /\ cls = "Api"
  /\ transID = 0
  /\ language = Api_parse_init_msg(<<"<", "P", ">">>).language
  /\ zombie = FALSE
  /\ pc = "idle"
  /\ op = "none"
  /\ length = <<>>
  /\ to_recv = 0
  /\ body = <<>>
  /\ err = "none"
  /\ returned = FALSE
  /\ result = <<>>
  /\ lastOp = "none"
  /\ ids = <<>>
  /\ trace = <<>>
  /\ lastIO = "none"
  /\ eofAt = "none"
  /\ badLenByte = FALSE
  /\ timedOut = FALSE
  /\ prev = NoPrev
  /\ closes = 0
  /\ nFrames = 0
  /\ nRaw = 0
  /\ payload = <<>>
  /\ fed = "session"
  /\ NoObjects

\* the engine answers the command it has received with one framed response;
\* pending keeps the answers in the order they were written
PeerAnswer(p) ==
  /\ fed = "session"
  /\ pc # "idle"
  /\ nFrames < transID
  /\ rx' = rx \o Frame(p)
  /\ pending' = Append(pending, p)
  /\ nFrames' = nFrames + 1
  /\ UNCHANGED <<connVars, peerClosed, tx, clientVars, pc, op, recvVars,
                 err, returned, result, lastOp, histVars, nRaw,
                 frameVars, respVars, propVars, evalVars, pairVars>>

NextSession ==
  \/ \E c \in SessionCmds : send_cmd(c)
  \/ \E p \in SessionAnswers : PeerAnswer(p)
  \/ recv_length
  \/ recv_body
  \/ recv_null

SpecSession == SessionInit /\ [][NextSession]_vars

\* ---- two sessions: the attributes of two Connection and client pairs ----

MaxCreated == 4       \* Connection and client objects constructed
MaxPairCmds == 2      \* commands sent by one client

Sessions == {1, 2}

\* the stream that accept() returns to the Connection of session i
Handle(i) == IF i = 1 THEN "sock1" ELSE "sock2"

\* the objects of a session that has none yet; has holds the names of the
\* attributes that are in the __dict__ of the Connection or of the client
NoInstance ==
  [conn |-> FALSE, client |-> "none", has |-> {}, sock |-> "None",
   isconned |-> 0, transID |-> 0]

\* self.a: the instance attribute when the instance has one, else the
\* attribute of the class
getattr(k, o, a) == IF a \in o.has THEN o[a] ELSE k[a]

\* an assignment that lands on the class
setattr_class(k, o, a, v) == [klass |-> [k EXCEPT ![a] = v], obj |-> o]

\* self.a = v: the assignment makes an instance attribute and leaves the
\* class alone
setattr(k, o, a, v) ==
  [klass |-> k, obj |-> [o EXCEPT ![a] = v, !.has = @ \cup {a}]]

\* what a caller sees of a session: isconnected(), the stream handle and
\* the transaction counter
Visible(k, o) ==
  [sock |-> getattr(k, o, "sock"),
   isconned |-> getattr(k, o, "isconned"),
   transID |-> getattr(k, o, "transID")]

\* Connection.close
pair_close(k, o) ==
  LET s1 == IF getattr(k, o, "sock") # "None"
            THEN setattr(k, o, "sock", "None")
            ELSE [klass |-> k, obj |-> o]
  IN setattr(s1.klass, s1.obj, "isconned", 0)

\* Connection.open when accept() returns the stream h
pair_open(k, o, h) ==
  LET s1 == setattr(k, o, "sock", h)
  IN setattr(s1.klass, s1.obj, "isconned", 1)

\* send_cmd: self.transID += 1
pair_count(k, o) == setattr(k, o, "transID", getattr(k, o, "transID") + 1)

\* the two sessions before any object is constructed
PairInit ==
  /\ Unconnected
  /\ NoStream
  /\ NoResponse
  /\ NoProperty
  /\ NoEval
  /\ klass = ClassAttrs
  /\ inst = [i \in Sessions |-> NoInstance]
  /\ acted = [on |-> 0, call |-> "none"]
  /\ created = 0

\* the operation call on session i ends with the class attributes and the
\* objects of the session as in s
PairDone(i, call, s) ==
  /\ klass' = s.klass
  /\ inst' = [inst EXCEPT ![i] = s.obj]
  /\ acted' = [on |-> i, call |-> call]
  /\ UNCHANGED <<sessionVars, pending, respVars, propVars, evalVars>>

\* Connection(): __init__ assigns port, host and timeout only; the
\* Connection and the client the session had are dropped
NewConnection(i) ==
  /\ created < MaxCreated
  /\ created' = created + 1
  /\ PairDone(i, "Connection",
              [klass |-> klass, obj |-> [NoInstance EXCEPT !.conn = TRUE]])

\* Connection.open(), called on a Connection that is not connected: the
\* engine connects, or the accept times out and nothing is assigned
Connection_open(i, connects) ==
  /\ inst[i].conn
  /\ getattr(klass, inst[i], "isconned") = 0
  /\ PairDone(i, "open",
              IF connects THEN pair_open(klass, inst[i], Handle(i))
              ELSE [klass |-> klass, obj |-> inst[i]])
  /\ UNCHANGED created

\* Api(conn) and Protocol(conn): a new client object, open() when the
\* connection is not open, then the handshake. out is how it ends: "ok",
\* "timeout" of the accept, "eof" of the read, which closes, or "badinit",
\* an init message that is refused; a constructor that raises leaves no
\* client
NewClient(i, c, out) ==
  /\ inst[i].conn
  /\ created < MaxCreated
  /\ created' = created + 1
  /\ LET isopen == getattr(klass, inst[i], "isconned") # 0
         fresh == [inst[i] EXCEPT !.client = c, !.has = @ \ {"transID"},
                                  !.transID = 0]
         none == [fresh EXCEPT !.client = "none"]
         opened == IF isopen THEN [klass |-> klass, obj |-> fresh]
                   ELSE pair_open(klass, fresh, Handle(i))
         failed == IF isopen THEN [klass |-> klass, obj |-> none]
                   ELSE pair_open(klass, none, Handle(i))
     IN /\ out = "timeout" => ~isopen
        /\ PairDone(i, c,
                    CASE out = "ok" -> opened
                      [] out = "timeout" -> [klass |-> klass, obj |-> none]
                      [] out = "eof" -> pair_close(failed.klass, failed.obj)
                      [] OTHER -> failed)

\* send_cmd on the client of session i. out is how it ends: "ok", a
\* response or an exception of the response constructor, "sendfail", an
\* exception of send_msg, or "eof" of the read, which closes
Client_send_cmd(i, out) ==
  /\ inst[i].client # "none"
  /\ getattr(klass, inst[i], "transID") < MaxPairCmds
  /\ LET s1 == pair_count(klass, inst[i])
     IN PairDone(i, "send_cmd",
                 IF out = "eof" THEN pair_close(s1.klass, s1.obj) ELSE s1)
  /\ UNCHANGED created

\* Connection.close(), also from Api.__del__ and Connection.__del__
Connection_close_on(i) ==
  /\ inst[i].conn
  /\ PairDone(i, "close", pair_close(klass, inst[i]))
  /\ UNCHANGED created

NextPair ==
  \/ \E i \in Sessions : NewConnection(i)
  \/ \E i \in Sessions, connects \in BOOLEAN : Connection_open(i, connects)
  \/ \E i \in Sessions, c \in {"Api", "Protocol"},
        out \in {"ok", "timeout", "eof", "badinit"} : NewClient(i, c, out)
  \/ \E i \in Sessions, out \in {"ok", "sendfail", "eof"} :
        Client_send_cmd(i, out)
  \/ \E i \in Sessions : Connection_close_on(i)

SpecPair == PairInit /\ [][NextPair]_vars

\* ---- the claims ----

\* C1: the k-th command a client issues carries transaction id k: the
\* counter is 0 before the first command, grows by exactly 1 with every
\* command issued, whether or not its send, receive or response fails, and
\* no id is used twice.
C1_TransactionIds ==
  /\ transID = Len(ids)
  /\ \A k \in 1..Len(ids) : ids[k] = k

\* a second command was issued after the send of an earlier one had failed
C1_Witness ==
  /\ Len(ids) >= 2
  /\ \E i \in 1..(Len(trace) - 1) : trace[i] = "sendfail"

\* C2 as stated: the transport calls of a session are receive(init), then
\* (send, receive)*: every send_cmd does exactly one send and then exactly
\* one receive.
C2_SendThenReceive ==
  \A i \in 1..Len(trace) :
    trace[i] = IF i % 2 = 1 THEN "recv" ELSE "send"

\* C2 as amended: leaving out the sends that raised, the transport calls of
\* a session are receive(init), then (send, receive)*; a send that raised
\* is followed by no receive; the handshake is one receive with no send
\* before it; while a receive is in progress it is the last call, so no
\* send happens before the previous receive has completed.
C2_SendThenReceiveUnlessSendRaises ==
  LET done == SelectSeq(trace, LAMBDA x : x # "sendfail")
  IN /\ \A i \in 1..Len(done) :
          done[i] = IF i % 2 = 1 THEN "recv" ELSE "send"
     /\ \A i \in 1..(Len(trace) - 1) :
          trace[i] = "sendfail" => trace[i + 1] # "recv"
     /\ (op = "init" /\ pc # "accept") => trace = <<"recv">>
     /\ pc \in {"recv_length", "recv_body", "recv_null"} /\ op # "recv"
          => /\ trace # <<>>
             /\ trace[Len(trace)] = "recv"

\* a command was sent and answered, and the send of the next one raised
C2_Witness ==
  /\ Len(trace) >= 4
  /\ trace[2] = "send"
  /\ trace[3] = "recv"
  /\ trace[Len(trace)] = "sendfail"
  /\ pc = "idle"

\* C3 as stated: the bytes send_msg(payload) writes, fed to recv_msg, make
\* recv_msg return the payload.
C3_RoundTrip ==
  (fed = "send_msg" /\ pc = "idle" /\ lastOp = "recv")
    => (returned /\ result = payload)

\* C3 as amended: send_msg(payload) writes the payload followed by one NUL
\* and no length prefix; recv_msg, fed the payload framed as
\* <decimal length> NUL <payload> NUL, returns exactly the payload.
C3_FramedRead ==
  /\ fed = "send_msg"
       => /\ Len(tx) = Len(payload) + 1
          /\ Take(tx, Len(payload)) = payload
          /\ tx[Len(tx)] = NUL
  /\ (fed = "frame" /\ pc = "idle" /\ lastOp = "recv")
       => (returned /\ result = payload /\ err = "none" /\ rx = <<>>)

\* a framed payload with a NUL and a digit in it was read and returned
C3_Witness ==
  /\ fed = "frame"
  /\ pc = "idle"
  /\ returned
  /\ Len(result) >= 2
  /\ \E i \in 1..Len(result) : result[i] = NUL
  /\ \E i \in 1..Len(result) : result[i] \in Digit

\* C4: when a read returns zero bytes in the length, the payload or the
\* trailing-NUL step of recv_msg, the connection is closed when the
\* EOFError reaches the caller, and no payload is returned.
C4_EOFCloses ==
  eofAt # "none"
    => /\ pc = "idle"
       /\ err = "EOFError"
       /\ sock = "None"
       /\ isconned = 0
       /\ ~returned
       /\ result = <<>>

\* the stream ended after the length and the whole payload, before the
\* trailing NUL
C4_Witness == eofAt = "null" /\ lastOp = "recv"

\* C5: reading the length prefix, recv_msg fails as soon as it reads a
\* byte that is neither a digit nor NUL; it does not go on reading and
\* returns no payload.
C5_MalformedLength ==
  badLenByte => (pc = "idle" /\ err # "none" /\ ~returned)

\* C6: when the constructor of the client fails in its handshake (the read
\* of the init message fails, the message is not XML or has no language),
\* the connection is closed when the error reaches the caller.
C6_HandshakeFailureCloses ==
  (pc = "idle" /\ lastOp = "init" /\ err # "none" /\ ~timedOut)
    => (isconned = 0 /\ sock = "None")

\* C7: an init message without language makes the constructor fail with
\* ResponseError and leaves no client; with a language the client records
\* it lower-cased.
C7_LanguageLowerCased ==
  (pc = "idle" /\ lastOp = "init" /\ returned /\ ET_fromstring(result).ok)
    => LET attr == ET_fromstring(result).language
       IN IF attr = None
          THEN err = "ResponseError" /\ client = "none"
          ELSE err = "none" /\ client = cls /\ language = lower(attr)

\* C8: a read or a write on the stream is attempted only while the
\* connection is Connected.
C8_IOOnlyWhenConnected == lastIO \in {"none", "Connected"}

\* C9: close() never fails and ends with the stream released and the
\* connection not connected, from any state; a second close() in a row
\* changes nothing.
C9_CloseIdempotent ==
  /\ closes >= 1 => (sock = "None" /\ isconned = 0 /\ err = "none")
  /\ closes >= 2 => (prev.sock = sock /\ prev.isconned = isconned)

\* close() was called twice in a row
C9_Witness == closes = 2

\* C10: when open() listens and no connection arrives in time, the
\* listener is torn down, the connection is not connected and the caller
\* sees the timeout.
C10_OpenTimeout ==
  timedOut => (serv = "closed" /\ isconned = 0 /\ err = "socket.timeout")

\* C11: every detach() that received a response from the engine leaves the
\* connection closed (isconnected() = 0), whatever the payload is.
C11_DetachCloses ==
  (pc = "idle" /\ lastOp = "detach" /\ returned)
    => (isconned = 0 /\ sock = "None")

\* the error element of the payload is located: the payload parses, its
\* root has a namespace and the error element is a child of the root
Located ==
  /\ response.wellformed
  /\ response.ns # ""
  /\ response.error = "child"

C13_EvalErrorOn206 ==
  (made = "failed" /\ Located /\ numeric(response.code))
    => /\ (int(response.code) = 206 /\ res_cls = "EvalResponse")
            => raised.type = "EvalError"
       /\ (int(response.code) = 206 /\ res_cls # "EvalResponse")
            => raised.type = "DBGPError"
       /\ raised.type = "EvalError"
            => (int(response.code) = 206 /\ res_cls = "EvalResponse")

\* C14: an error element with a code other than 4 and no nested message
\* element raises the reported error carrying that code; the absence of
\* the message is no error of the response's format.
C14_MessageOptional ==
  (made = "failed" /\ Located /\ numeric(response.code)
     /\ int(response.code) # 4 /\ ~response.message)
    => /\ raised.type \in {"DBGPError", "EvalError"}
       /\ raised.type = "DBGPError" => raised.code = response.code

\* C15: any two as_xml() calls on one response have the same outcome: the
\* same tree with the same namespace, or the same failure.
C15_ParseIdempotent ==
  \A i, j \in 1..Len(accesses) : accesses[i] = accesses[j]

\* C16: the lookups made while a property tree is built use the namespace
\* of the response's elements: the tree built from a response is the tree
\* built from the same response with its elements in another namespace
\* URI (same children, values and display names).
C16_NamespaceIndependent ==
  calls = 1
    => properties = create_properties(ContextProperty(node, ProtocolNs))

\* C17: of the built children of a node with a positive declared child
\* count, exactly one is flagged is_last_child and it is the last one in
\* document order, whether the declared count equals, exceeds or is
\* smaller than the number of matching child elements.
C17_LastChildByPosition ==
  \A i \in 1..Len(properties) :
    LET p == properties[i]
    IN (p.num_declared_children > 0 /\ Len(p.children) >= 1)
         => \A k \in 1..Len(p.children) :
              p.children[k].is_last_child <=> (k = Len(p.children))

\* the child elements of the element under construction that the builder
\* matches: those whose tag is the property tag it looks up
NumMatching ==
  Cardinality({k \in 1..Len(node.kids) :
                 /\ node.kids[k].name = "property"
                 /\ uri = ContextProperty_ns})

\* C20 as stated: a built node has as many children as it declares, except
\* that a node with a positive declared count and no matching child
\* element has none; a node that declares 0 has none.
C20_ChildCount ==
  properties # <<>>
    => LET p == properties[1]
       IN /\ p.num_declared_children = 0 => Len(p.children) = 0
          /\ p.num_declared_children > 0
               => IF NumMatching = 0 THEN Len(p.children) = 0
                  ELSE Len(p.children) = p.num_declared_children

\* C20 as amended: a node that declares 0 children has no built children;
\* a node that declares a positive count has one built child for each
\* matching child element, whatever the count is: none when there is no
\* such element, and as many as it declares only when the response carries
\* that many.
C20_ChildPerElement ==
  properties # <<>>
    => LET p == properties[1]
       IN /\ \A i \in 1..Len(properties) :
               properties[i].num_declared_children = 0
                 => Len(properties[i].children) = 0
          /\ p.num_declared_children > 0 => Len(p.children) = NumMatching

\* a node that declares three children was built from two child elements
C20_Witness ==
  /\ properties # <<>>
  /\ properties[1].num_declared_children = 3
  /\ Len(properties[1].children) = 2
  /\ NumMatching = 2

\* C18: for every expression text, get_code() on the EvalResponse that
\* eval(text) returned gives back exactly the text, also when the length
\* of the base64 token is no multiple of four and when the encoder emits
\* more than one line.
C18_EvalRoundTrip ==
  evalpc = "decoded" => decoded = [raised |-> "none", text |-> code]

\* C19: on a stream of well-formed framed messages, however the reads of
\* the payload are cut into partial reads, consecutive recv_msg calls
\* return the payloads in order, each exactly as long as its frame
\* declares, and each call consumes its own frame and no byte of the next.
C19_FramesInOrder ==
  fed = "stream"
    => /\ (pc = "idle" /\ lastOp = "recv")
            => /\ returned
               /\ err = "none"
               /\ result = payload
               /\ rx = Frames(pending)
       /\ pc \in {"recv_body", "recv_null"}
            => /\ Len(body) + to_recv = Len(payload)
               /\ body = Take(payload, Len(body))
       /\ pc = "recv_body" => to_recv > 0

\* the second of two messages was returned, one with a NUL in its payload
C19_Witness ==
  /\ fed = "stream"
  /\ pc = "idle"
  /\ Len(trace) = 2
  /\ returned
  /\ Len(result) >= 2
  /\ \E i \in 1..Len(result) : result[i] = NUL
  /\ pending = <<>>

\* base64.decodebytes of the text, or the UTF-8 decoding of its bytes,
\* raises
decode_raises(bin) ==
  bin.raised # "none" \/ utf8_decode(bin.text).raised # "none"

Undecodable(t) == t # NoText /\ decode_raises(decodebytes(utf8_encode(t)))

\* C21: when a base64-marked node text or a nested value or fullname
\* element cannot be decoded, as base64 or as UTF-8, building the property
\* does not fail: the value or the name is the raw text (a string type
\* between its backticks) and the child properties are still built.
C21_DecodeFallback ==
  (made # "input" /\ node \in EncNodes)
    => /\ raised = NoExc
       /\ properties # <<>>
       /\ LET p == properties[1]
              fn == find(node, ProtocolNs, "fullname")
              vl == find(node, ProtocolNs, "value")
              kids == SelectSeq(node.kids, LAMBDA c : c.name = "property")
          IN /\ (node.fullname = NoText /\ fn # NoNode
                   /\ Undecodable(fn.text))
                  => p.display_name = fn.text
             /\ (~p.has_children /\ vl # NoNode /\ Undecodable(vl.text))
                  => p.value = shown(node.type, vl.text)
             /\ (~p.has_children /\ vl = NoNode
                   /\ node.encoding = "base64" /\ Undecodable(node.text))
                  => p.value = shown(node.type, node.text)
             /\ p.has_children => Len(p.children) = Len(kids)

\* C23: get_context() is idempotent: the first call returns every node of
\* the property tree once, the parent before its children in document
\* order, and every later call on the same response returns a list of the
\* same nodes and the same length.
C23_GetContextIdempotent ==
  calls >= 1
    => properties = create_properties(ContextProperty(node, uri))

\* C24: a command whose response is an error the debuggee reports leaves
\* the session usable: the connection stays connected, the response frame
\* is read off the stream to its last byte, the transaction counter keeps
\* its incremented value, and the next command is sent with the next id
\* and gets the answer the engine wrote to it.
C24_ErrorLeavesSessionUsable ==
  fed = "session"
    => /\ (pc = "idle" /\ lastOp = "cmd" /\ err = "DBGPError")
            => /\ isconned = 1
               /\ sock = "sock"
               /\ rx = <<>>
               /\ returned
               /\ transID = Len(ids)
               /\ pending[transID] \in ErrorAnswers
       /\ \A i \in 1..Len(ids) : ids[i] = i
       /\ pc # "idle"
            => \E c \in SessionCmds : tx = send_msg(CommandLine(c, transID))
       /\ (pc = "idle" /\ lastOp = "cmd")
            => /\ Len(pending) = transID
               /\ result = pending[transID]
               /\ err = "none" <=> pending[transID] \notin ErrorAnswers

\* a command was answered after the one before it had raised the reported
\* error
C24_Witness ==
  /\ fed = "session"
  /\ pc = "idle"
  /\ transID = 2
  /\ Len(pending) = 2
  /\ pending[1] \in ErrorAnswers
  /\ pending[2] \notin ErrorAnswers
  /\ err = "none"
  /\ result = pending[2]
  /\ isconned = 1

\* C22: sessions are independent: an operation on one client/connection
\* pair (construction, open, commands, failures, close) leaves the
\* transaction counter, the connected flag and the stream handle of the
\* other pair unchanged, and a newly created Connection is not connected
\* and a newly created client has transaction counter 0.
C22_SessionsIndependent ==
  [][/\ \A j \in Sessions :
          j # acted'.on
            => Visible(klass', inst'[j]) = Visible(klass, inst[j])
     /\ acted'.call = "Connection"
          => /\ Visible(klass', inst'[acted'.on]).isconned = 0
             /\ Visible(klass', inst'[acted'.on]).sock = "None"
     /\ acted'.call \in {"Api", "Protocol"}
          => Visible(klass', inst'[acted'.on]).transID = 0]_vars

\* one session has sent two commands and is connected while the other,
\* whose client exists, has sent none and is closed
C22_Witness ==
  /\ inst # <<>>
  /\ inst[1].client # "none"
  /\ inst[2].client # "none"
  /\ Visible(klass, inst[1]) =
       [sock |-> Handle(1), isconned |-> 1, transID |-> 2]
  /\ Visible(klass, inst[2]) =
       [sock |-> "None", isconned |-> 0, transID |-> 0]
  /\ acted.on = 1

====
